---- MODULE Spec2Model ----
(***************************************************************************)
(* keyword-notifier: the periodic fetchers that poll Twitter and Stack     *)
(* Overflow for a keyword and persist new items in the MySQL table         *)
(* `shareables`.                                                           *)
(*                                                                         *)
(*   fetcher-twitter/src/main.rs   standalone twitter fetcher              *)
(*   src/fetcher/twitter.rs        in-process twitter fetcher              *)
(*   src/fetcher/stackoverflow.rs  in-process Stack Overflow fetcher       *)
(*   src/fetcher/base.rs           trait Fetcher: run / run_in_loop        *)
(*                                                                         *)
(* Strings that the code only copies are TLA+ strings; a text the code     *)
(* searches (str::contains) is a sequence of one-character strings.        *)
(***************************************************************************)
EXTENDS Integers, Sequences, FiniteSets, TLC

(***************************************************************************)
(* Bounds                                                                  *)
(***************************************************************************)
\* longest upstream response (number of raw items) of a task running alone
MaxItems == 3
\* longest upstream response when two tasks share the store
MaxRaceItems == 1
\* most interval periods that may have elapsed without being consumed
MaxPending == 1
\* cycles of the strategy comparison
MaxCycles == 3
\* most answers of a question, and longest response, when the normalisation
\* of questions is looked at alone
MaxAnswers == 2
MaxQuestions == 2
\* longest response of a source in the in-memory variant
MaxWebItems == 2

(***************************************************************************)
(* Tasks: one scheduler loop each.  Kind names the code the task runs.     *)
(***************************************************************************)
Tasks == {"fetcher-twitter", "twitter", "stackoverflow", "fetcher-a", "fetcher-b"}

CheckThenWriteTasks == {"fetcher-twitter", "twitter", "stackoverflow"}

IdempotentWriteTasks == {"fetcher-a", "fetcher-b"}

\* the sets of tasks that run against one store
Deployments ==
    { {"fetcher-twitter"}, {"twitter"}, {"stackoverflow"}, {"fetcher-a"},
      {"fetcher-twitter", "twitter"}, {"twitter", "stackoverflow"},
      {"fetcher-a", "fetcher-b"} }

(***************************************************************************)
(* Text helpers                                                            *)
(***************************************************************************)
\* str::contains(pat)
Contains(text, pat) ==
    \E i \in 1..(Len(text) - Len(pat) + 1) :
        SubSeq(text, i, i + Len(pat) - 1) = pat

RetweetMarker == <<"R", "T">>

(***************************************************************************)
(* chrono: Utc.timestamp(secs, 0).date().to_string()                       *)
(***************************************************************************)
SecondsPerDay == 86400

\* floor division (the divisor is positive); TLA+ \div already floors
DaysSinceEpoch(secs) == secs \div SecondsPerDay

\* proleptic Gregorian date of a day number (days since 1970-01-01)
CivilFromDays(days) ==
    LET z   == days + 719468
        era == z \div 146097
        doe == z - era * 146097
        yoe == (doe - doe \div 1460 + doe \div 36524 - doe \div 146096) \div 365
        doy == doe - (365 * yoe + yoe \div 4 - yoe \div 100)
        mp  == (5 * doy + 2) \div 153
        d   == doy - (153 * mp + 2) \div 5 + 1
        m   == IF mp < 10 THEN mp + 3 ELSE mp - 9
        y   == yoe + era * 400 + (IF m <= 2 THEN 1 ELSE 0)
    IN  [year |-> y, month |-> m, day |-> d]

Digit(n) == CASE n = 0 -> "0" [] n = 1 -> "1" [] n = 2 -> "2" [] n = 3 -> "3"
              [] n = 4 -> "4" [] n = 5 -> "5" [] n = 6 -> "6" [] n = 7 -> "7"
              [] n = 8 -> "8" [] n = 9 -> "9"

Pad2(n) == Digit((n \div 10) % 10) \o Digit(n % 10)

Pad4(n) == Pad2(n \div 100) \o Pad2(n % 100)

\* Display of Date<Utc>: "YYYY-MM-DD" followed by the offset name
DateToString(secs) ==
    LET c == CivilFromDays(DaysSinceEpoch(secs))
    IN  Pad4(c.year) \o "-" \o Pad2(c.month) \o "-" \o Pad2(c.day) \o "UTC"

(***************************************************************************)
(* Upstream items                                                          *)
(***************************************************************************)
PlainText == <<"h", "i">>

RetweetText == <<"R", "T", " ", "h", "i">>

\* TwitterResponseItem { id, text, created_at }
Tweets ==
    { [id |-> "1", text |-> PlainText,   created_at |-> "2022-01-01T00:00:00.000Z"],
      [id |-> "2", text |-> RetweetText, created_at |-> "2022-01-02T00:00:00.000Z"] }

\* StackOverflowQuestion { is_answered, link, title, answer_count, creation_date }
Questions ==
    { [is_answered |-> FALSE, link |-> "https://stackoverflow.com/q/1",
       title |-> "How", answer_count |-> 0, creation_date |-> 1640995200],
      [is_answered |-> TRUE, link |-> "https://stackoverflow.com/q/1",
       title |-> "How", answer_count |-> 1, creation_date |-> 1640995200],
      [is_answered |-> FALSE, link |-> "https://stackoverflow.com/q/2",
       title |-> "Why", answer_count |-> 2, creation_date |-> 86399] }

\* Shareable { id, title, date, url, source }
Shareable(id, title, date, url, source) ==
    [id |-> id, title |-> title, date |-> date, url |-> url, source |-> source]

\* what an implementation of Fetcher::fetch may hand to Fetcher::run
FetchedShareables ==
    { Shareable("blog-1", <<"a">>, "2022-01-01", "https://example.org/1", "blog"),
      Shareable("blog-1", <<"b">>, "2022-01-03", "https://example.org/1", "blog"),
      Shareable("blog-2", <<"c">>, "2022-01-02", "https://example.org/2", "blog") }

RECURSIVE SeqsUpTo(_, _)
\* all sequences over S of length at most n
SeqsUpTo(S, n) ==
    IF n = 0 THEN { <<>> }
    ELSE LET shorter == SeqsUpTo(S, n - 1)
         IN  shorter \cup { Append(s, x) : s \in { q \in shorter : Len(q) = n - 1 }, x \in S }

(***************************************************************************)
(* Normalisation (the closures inside fetch)                               *)
(***************************************************************************)
\* variant: the id is made of the day of the tweet
TwitterItemIdByDate(item) == "twitter-" \o item.created_at

\* format!("twitter-{}", item.id)
TwitterItemId(item) == "twitter-" \o item.id

\* format!("stackoverflow-{}", item.link)
StackOverflowItemId(item) == "stackoverflow-" \o item.link

TwitterShareable(item) ==
    Shareable(TwitterItemId(item), item.text, item.created_at,
              "https://twitter.com/twitter/status/" \o item.id, "twitter")

\* variant: the number of answers is looked at first
StateMarkerByCount(item) ==
    IF item.answer_count > 0 THEN ":waiting-spin:"
    ELSE IF item.is_answered THEN ":white_check_mark:"
    ELSE ":question:"

\* the marker put in front of a question's title
StateMarker(item) ==
    IF item.is_answered THEN ":white_check_mark:"
    ELSE IF item.answer_count > 0 THEN ":waiting-spin:"
    ELSE ":question:"

\* format!("{} - {}", state, item.title)
StackOverflowTitle(item) == <<StateMarker(item), " - ", item.title>>

StackOverflowShareable(item) ==
    Shareable(StackOverflowItemId(item), StackOverflowTitle(item),
              DateToString(item.creation_date), item.link, "stackoverflow")

\* known_shareables.iter().find(|x| x.id == item_id).is_none()
IsUnknown(known_shareables, item_id) ==
    \A i \in 1..Len(known_shareables) : known_shareables[i] # item_id

RECURSIVE StandaloneTwitterBatch(_, _)
\* fetcher-twitter: data.data.iter().for_each(...)
StandaloneTwitterBatch(known_shareables, data) ==
    IF data = <<>> THEN <<>>
    ELSE LET item == Head(data)
             rest == StandaloneTwitterBatch(known_shareables, Tail(data))
         IN  IF IsUnknown(known_shareables, TwitterItemId(item))
             THEN <<TwitterShareable(item)>> \o rest
             ELSE rest

RECURSIVE TwitterBatch(_, _)
\* src/fetcher/twitter.rs: data.data.iter().for_each(...)
TwitterBatch(known_shareables, data) ==
    IF data = <<>> THEN <<>>
    ELSE LET item == Head(data)
             rest == TwitterBatch(known_shareables, Tail(data))
         IN  IF Contains(item.text, RetweetMarker) THEN rest
             ELSE IF IsUnknown(known_shareables, TwitterItemId(item))
             THEN <<TwitterShareable(item)>> \o rest
             ELSE rest

RECURSIVE StackOverflowBatch(_, _)
\* src/fetcher/stackoverflow.rs: data.items.iter().for_each(...)
StackOverflowBatch(known_shareables, data) ==
    IF data = <<>> THEN <<>>
    ELSE LET item == Head(data)
             rest == StackOverflowBatch(known_shareables, Tail(data))
         IN  IF IsUnknown(known_shareables, StackOverflowItemId(item))
             THEN <<StackOverflowShareable(item)>> \o rest
             ELSE rest

RECURSIVE BatchRemembering(_, _, _)
\* variant: an id the cycle has put into the batch counts as known from then on
BatchRemembering(t, known_shareables, data) ==
    IF data = <<>> THEN <<>>
    ELSE LET one == CASE t = "fetcher-twitter" ->
                             StandaloneTwitterBatch(known_shareables, <<Head(data)>>)
                      [] t = "twitter"         -> TwitterBatch(known_shareables, <<Head(data)>>)
                      [] t = "stackoverflow"   ->
                             StackOverflowBatch(known_shareables, <<Head(data)>>)
                      [] OTHER                 -> <<Head(data)>>
         IN  one \o BatchRemembering(t, known_shareables \o [i \in 1..Len(one) |-> one[i].id],
                                      Tail(data))

\* the write batch a task builds from a decoded response
Batch(t, known_shareables, data) ==
    CASE t = "fetcher-twitter" -> StandaloneTwitterBatch(known_shareables, data)
      [] t = "twitter"         -> TwitterBatch(known_shareables, data)
      [] t = "stackoverflow"   -> StackOverflowBatch(known_shareables, data)
      [] OTHER                 -> data

(***************************************************************************)
(* The table `shareables`                                                  *)
(***************************************************************************)
\* the table's key on the column id: is a row with this id present
KeyExists(rows, id) == \E i \in 1..Len(rows) : rows[i].id = id

\* SELECT id from shareables
SelectIds(rows) == [i \in 1..Len(rows) |-> rows[i].id]

\* variant: the statement does not meet the key, every row is stored
InsertNoKey(rows, row) == [ok |-> TRUE, rows |-> Append(rows, row)]

\* one execution of INSERT INTO shareables ...: a duplicate key is an error
Insert(rows, row) ==
    IF KeyExists(rows, row.id)
    THEN [ok |-> FALSE, rows |-> rows]
    ELSE [ok |-> TRUE, rows |-> Append(rows, row)]

\* variant: a duplicate key overwrites the stored row (REPLACE INTO)
InsertReplace(rows, row) ==
    IF KeyExists(rows, row.id)
    THEN [ok |-> TRUE,
          rows |-> [i \in 1..Len(rows) |-> IF rows[i].id = row.id THEN row ELSE rows[i]]]
    ELSE [ok |-> TRUE, rows |-> Append(rows, row)]

\* variant: IGNORE finds no duplicate, every row is stored
InsertIgnoreNoKey(rows, row) == [ok |-> TRUE, rows |-> Append(rows, row)]

\* one execution of INSERT IGNORE INTO shareables ...: a duplicate key is skipped
InsertIgnore(rows, row) ==
    IF KeyExists(rows, row.id)
    THEN [ok |-> TRUE, rows |-> rows]
    ELSE [ok |-> TRUE, rows |-> Append(rows, row)]

\* the statement a task's exec_batch runs for each item of the batch
ExecStatement(t, rows, row) ==
    IF t \in CheckThenWriteTasks THEN Insert(rows, row) ELSE InsertIgnore(rows, row)

(***************************************************************************)
(* State                                                                   *)
(***************************************************************************)
VARIABLES
    store,       \* rows of the table shareables, in insertion order
    active,      \* the tasks of this deployment
    pc,          \* per task: position in the scheduler loop
    stage,       \* per task: position inside fetch / run, "idle" outside a cycle
    known,       \* per task: known_shareables, the ids read at the start of the cycle
    result,      \* per task: what the cycle's request to the source brought back
    last,        \* per task: until the next request, the response of the previous cycle
                 \*           when that cycle succeeded
    shareables,  \* per task: the write batch of the cycle
    idx,         \* per task: number of batch items executed so far
    res,         \* per task: the Result the cycle returned to the loop
    outcome,     \* per task: how the cycle that has just returned ended
    pending,     \* per task: interval deadlines that have passed and were not consumed
    written,     \* per task: rows the current cycle has inserted
    repeat,      \* per task: the current cycle got the response of the previous, successful one
    requests,    \* per task: requests the current cycle has sent to the source
    elapsed,     \* per task: a whole period of the task's interval has passed since startup
    conns,       \* per task: pooled connections the task holds
    twin,        \* the two stores of the strategy comparison (TwinSpec)
    cache,       \* in-memory variant: LocalCache.cache, the keys of the posted items
    lock,        \* in-memory variant: the handler call that holds the write lock of the cache
    calls,       \* in-memory variant: per call of the root handler, its locals and position
    selected     \* in-memory variant: per cache key, how often a filter pushed an item of it

vars == <<store, active, pc, stage, known, result, last, shareables, idx, res, outcome,
          pending, written, repeat, requests, elapsed, conns, twin,
          cache, lock, calls, selected>>

\* the state of the in-memory variant (src/src/main.rs)
web == <<cache, lock, calls, selected>>

NoResult == [status |-> "none", data |-> <<>>, next_token |-> "none"]

\* outside the strategy comparison
NoTwin == [ctw |-> <<>>, iw |-> <<>>, ctw_res |-> "none", iw_res |-> "none",
           data |-> <<>>, cycles |-> 0]

(***************************************************************************)
(* The in-memory variant (src/src/main.rs): items, cache keys, messages    *)
(***************************************************************************)
\* the calls of the root handler that can be in flight together
Handlers == {"h1", "h2"}

MentionText == <<"@", "b">>

\* TwitterResponseItem { id, text }
WebTweets ==
    { [id |-> "1", text |-> PlainText],
      [id |-> "2", text |-> RetweetText],
      [id |-> "3", text |-> MentionText] }

\* StackOverflowQuestion { is_answered, link, title, answer_count }
WebQuestions ==
    { [is_answered |-> FALSE, link |-> "https://stackoverflow.com/q/1",
       title |-> "How", answer_count |-> 0],
      [is_answered |-> TRUE, link |-> "https://stackoverflow.com/q/1",
       title |-> "How", answer_count |-> 1] }

IsTweet(item) == "text" \in DOMAIN item

\* str::starts_with(pat)
StartsWith(text, pat) ==
    /\ Len(text) >= Len(pat)
    /\ \A i \in 1..Len(pat) : text[i] = pat[i]

\* Cacheable::cache_key
CacheKey(item) ==
    IF IsTweet(item) THEN "twitter-" \o item.id ELSE "stack-overflow-" \o item.link

\* variant: only retweets are held back
NeverShareRetweets(item) == IsTweet(item) /\ Contains(item.text, RetweetMarker)

\* Cacheable::never_share: the default is false, tweets override it
NeverShare(item) ==
    /\ IsTweet(item)
    /\ (Contains(item.text, RetweetMarker) \/ StartsWith(item.text, <<"@">>))

\* Shareable::link
Link(item) ==
    IF IsTweet(item) THEN "https://twitter.com/twitter/status/" \o item.id ELSE item.link

\* Shareable::link_name
LinkName(item) ==
    IF IsTweet(item) THEN <<":bird: Twitter">>
    ELSE << IF item.is_answered THEN ":white_check_mark:"
            ELSE IF item.answer_count > 0 THEN ":waiting-spin:"
            ELSE ":question:",
            " StackOverflow" >>

\* Shareable::title
Title(item) == IF IsTweet(item) THEN item.text ELSE <<item.title>>

\* Shareable::message: format!("<{}|{}>: {}", link, link_name, title)
Message(item) == <<"<", Link(item), "|">> \o LinkName(item) \o <<">: ">> \o Title(item)

\* the lines of the Slack message: a bullet and item.message() for each item
Content(items) == [i \in 1..Len(items) |-> <<"* ">> \o Message(items[i])]

\* LocalCache::contains
CacheContains(c, key) == key \in c

\* LocalCache::add
CacheAdd(c, key) == c \cup {key}

\* every key an item of the sources can have
Keys == { CacheKey(x) : x \in WebTweets \cup WebQuestions }

\* what one of the three fetches of a call can bring back: the decoded items or Err
WebUpstream(n) ==
    { [ok |-> TRUE, data |-> d] :
          d \in SeqsUpTo(IF n < 2 THEN WebTweets ELSE WebQuestions, MaxWebItems) }
    \cup { [ok |-> FALSE, data |-> <<>>] }

\* a call of root that has not started
NoCall ==
    [pc |-> "idle", next |-> 0, seen |-> <<>>, data |-> <<>>, at |-> 0,
     items_to_post |-> <<>>, res |-> "none", text |-> <<>>,
     response |-> [status |-> "none", posted_items |-> 0]]

WebInit ==
    /\ cache = {}
    /\ lock = "none"
    /\ calls = [h \in Handlers |-> NoCall]
    /\ selected = [k \in Keys |-> 0]

\* the raw items the source of a task running alone can return
SoloItems(t) ==
    CASE t \in {"fetcher-twitter", "twitter"} -> Tweets
      [] t = "stackoverflow"                  -> Questions
      [] OTHER                                -> FetchedShareables

\* the raw items a source can return when two tasks share the store
RaceItems(t) ==
    CASE t \in {"fetcher-twitter", "twitter"} -> Tweets
      [] t = "stackoverflow"                  -> { q \in Questions : q.answer_count = 0 }
      [] OTHER                                -> { f \in FetchedShareables : f.id = "blog-1" }

Items(t) == IF Cardinality(active) = 1 THEN SoloItems(t) ELSE RaceItems(t)

\* the longest response in this deployment
Limit == IF Cardinality(active) = 1 THEN MaxItems ELSE MaxRaceItems

\* variant: a body that does not decode as a whole still yields its items
LenientApiResult(r) ==
    IF r.status # "transport_error" THEN [ok |-> TRUE, data |-> r.data]
    ELSE [ok |-> FALSE, data |-> <<>>]

\* fetch_twitter_api / fetch_stackoverflow_api / Fetcher::fetch: Ok(json) or Err
ApiResult(r) ==
    IF r.status = "ok" THEN [ok |-> TRUE, data |-> r.data]
    ELSE [ok |-> FALSE, data |-> <<>>]

\* the continuation tokens a body of the source can carry
Tokens(t) ==
    IF active = {t} /\ t \in {"fetcher-twitter", "twitter"} THEN {"none", "T1"} ELSE {"none"}

\* what one request can bring back: a decodable body, no body at all, or a
\* body that does not decode into the expected shape
\* a body may carry a continuation token next to its items
Upstream(t) ==
    { [status |-> "ok", data |-> d, next_token |-> n] :
          d \in SeqsUpTo(Items(t), Limit), n \in Tokens(t) }
    \cup { [status |-> "transport_error", data |-> <<>>, next_token |-> "none"] }
    \cup { [status |-> "decode_error", data |-> <<x>>, next_token |-> "none"] : x \in Items(t) }

\* what the cycle got from a request: how it went, the decoded items, and the
\* continuation token the body carried
Fetched(r) == [status |-> r.status, data |-> ApiResult(r).data, next_token |-> r.next_token]

\* variant: a response with a continuation token is followed by another request
FollowToken(r) == IF r.next_token # "none" THEN "api" ELSE "prepare"

\* where fetch goes after the response: the loop over its items and the write
AfterApi(r) == "prepare"

\* the requests one cycle sends to its source
PageCeiling == 1

\* variant: an empty batch is rejected
EmptyBatchRejected == [res |-> "Err", outcome |-> "empty_batch"]

\* exec_batch over an empty batch: the loop over the items does nothing
EmptyBatch == [res |-> "Ok", outcome |-> "ok"]

\* variant: the connection is dropped only when the cycle succeeds
DroppedOnOk(r) == IF r = "Ok" THEN 1 ELSE 0

\* connections dropped when fetch / run returns r: it owns `conn`
Dropped(r) == 1

\* the first suspension point of a cycle: the snapshot read, or the fetch for run
FirstStage(t) == IF t \in CheckThenWriteTasks THEN "select" ELSE "api"

\* what fetch returns when the request to the source failed
FetchFailureResult(t) == IF t \in CheckThenWriteTasks THEN "Ok" ELSE "Err"

\* variant: a failed request is sent once more
RetryOnce(n) == n < 2

\* is a request that failed as the n-th of its cycle sent again: the api
\* functions return Err at the first failure
RetryFetch(n) == FALSE

\* variant: a failed cycle is retried without waiting for the interval
AfterCycleRetry(r) == IF r = "Err" THEN "get_conn" ELSE "tick"

\* where the loop goes after `match res { ... }`
AfterCycle(r) == "tick"

\* variant: the cycle is started and not awaited
NotAwaited(t) == TRUE

\* variant: the loop waits for the cycles of all tasks
AllReturned(t) == \A u \in active : stage[u] = "idle"

\* the loop resumes from `.await` once the cycle has returned
Returned(t) == stage[t] = "idle"

Init ==
    /\ store = <<>>
    /\ active \in Deployments
    /\ pc = [t \in Tasks |-> "get_conn"]
    /\ stage = [t \in Tasks |-> "idle"]
    /\ known = [t \in Tasks |-> <<>>]
    /\ result = [t \in Tasks |-> NoResult]
    /\ last = [t \in Tasks |-> NoResult]
    /\ shareables = [t \in Tasks |-> <<>>]
    /\ idx = [t \in Tasks |-> 0]
    /\ res = [t \in Tasks |-> "none"]
    /\ outcome = [t \in Tasks |-> "none"]
    /\ pending = [t \in Tasks |-> 1]
    /\ written = [t \in Tasks |-> 0]
    /\ repeat = [t \in Tasks |-> FALSE]
    /\ requests = [t \in Tasks |-> 0]
    /\ elapsed = [t \in Tasks |-> FALSE]
    /\ conns = [t \in Tasks |-> 0]
    /\ twin = NoTwin
    /\ WebInit

\* the cycle of task t returns r to the loop
Return(t, r, o) ==
    /\ stage' = [stage EXCEPT ![t] = "idle"]
    /\ res' = [res EXCEPT ![t] = r]
    /\ outcome' = [outcome EXCEPT ![t] = o]
    /\ known' = [known EXCEPT ![t] = <<>>]
    /\ conns' = [conns EXCEPT ![t] = @ - Dropped(r)]

(***************************************************************************)
(* The scheduler loop (run_in_loop, spawn_fetcher, fetcher-twitter main)   *)
(***************************************************************************)
\* pool.get_conn() succeeds and the cycle is called
GetConn(t) ==
    /\ t \in active
    /\ pc[t] = "get_conn"
    /\ pc' = [pc EXCEPT ![t] = "await"]
    /\ stage' = [stage EXCEPT ![t] = FirstStage(t)]
    /\ UNCHANGED <<store, active, known, result, last, shareables, idx, res, outcome, pending,
                   written, repeat>>
    /\ conns' = [conns EXCEPT ![t] = @ + 1]
    /\ UNCHANGED <<requests, elapsed, twin>>
    /\ UNCHANGED web

\* pool.get_conn() fails: expect("Failed to get connection") panics the task
GetConnPanic(t) ==
    /\ t \in active
    /\ pc[t] = "get_conn"
    /\ pc' = [pc EXCEPT ![t] = "panicked"]
    /\ UNCHANGED <<store, active, stage, known, result, last, shareables, idx, res, outcome,
                   pending, written, repeat>>
    /\ UNCHANGED <<requests, elapsed, conns, twin>>
    /\ UNCHANGED web

\* the awaited cycle has returned: log the result, go on to interval.tick();
\* what the cycle left behind is dropped, the next cycle starts afresh
Resume(t) ==
    /\ t \in active
    /\ pc[t] = "await"
    /\ Returned(t)
    /\ pc' = [pc EXCEPT ![t] = AfterCycle(res[t])]
    /\ shareables' = [shareables EXCEPT ![t] = <<>>]
    /\ idx' = [idx EXCEPT ![t] = 0]
    /\ written' = [written EXCEPT ![t] = 0]
    /\ outcome' = [outcome EXCEPT ![t] = "none"]
    /\ repeat' = [repeat EXCEPT ![t] = FALSE]
    /\ res' = [res EXCEPT ![t] = "none"]
    /\ result' = [result EXCEPT ![t] = NoResult]
    /\ last' = [last EXCEPT ![t] =
                   IF outcome[t] = "ok" THEN result[t] ELSE NoResult]
    /\ UNCHANGED <<store, active, stage, known, pending>>
    /\ requests' = [requests EXCEPT ![t] = 0]
    /\ UNCHANGED <<elapsed, conns, twin>>
    /\ UNCHANGED web

\* interval.tick().await completes: a deadline has passed
Tick(t) ==
    /\ t \in active
    /\ pc[t] = "tick"
    /\ pending[t] > 0
    /\ pending' = [pending EXCEPT ![t] = @ - 1]
    /\ pc' = [pc EXCEPT ![t] = "get_conn"]
    /\ UNCHANGED <<store, active, stage, known, result, last, shareables, idx, res, outcome,
                   written, repeat>>
    /\ UNCHANGED <<requests, elapsed, conns, twin>>
    /\ UNCHANGED web

\* time passes: one more period of the task's interval has elapsed
Elapse(t) ==
    /\ t \in active
    /\ pc[t] # "panicked"
    /\ pending[t] < MaxPending
    /\ pending' = [pending EXCEPT ![t] = @ + 1]
    /\ UNCHANGED <<store, active, pc, stage, known, result, last, shareables, idx, res, outcome,
                   written, repeat>>
    /\ elapsed' = [elapsed EXCEPT ![t] = TRUE]
    /\ UNCHANGED <<requests, conns, twin>>
    /\ UNCHANGED web

(***************************************************************************)
(* One cycle (fetch of the three fetchers, Fetcher::run)                   *)
(***************************************************************************)
\* conn.query_map("SELECT id from shareables", ...) succeeds
Select(t) ==
    /\ t \in active
    /\ stage[t] = "select"
    /\ known' = [known EXCEPT ![t] = SelectIds(store)]
    /\ stage' = [stage EXCEPT ![t] = "api"]
    /\ UNCHANGED <<store, active, pc, result, last, shareables, idx, res, outcome, pending,
                   written, repeat>>
    /\ UNCHANGED <<requests, elapsed, conns, twin>>
    /\ UNCHANGED web

\* the snapshot read fails: `?` returns the error
SelectErr(t) ==
    /\ t \in active
    /\ stage[t] = "select"
    /\ Return(t, "Err", "snapshot_error")
    /\ UNCHANGED <<store, active, pc, result, last, shareables, idx, pending, written, repeat>>
    /\ UNCHANGED <<requests, elapsed, twin>>
    /\ UNCHANGED web

\* the request to the source succeeds and decodes; the batch is built
Api(t) ==
    /\ t \in active
    /\ stage[t] = "api"
    /\ \E r \in Upstream(t) :
        /\ ApiResult(r).ok
        /\ result' = [result EXCEPT ![t] = Fetched(r)]
        /\ repeat' = [repeat EXCEPT ![t] = (last[t] = Fetched(r))]
        /\ last' = [last EXCEPT ![t] = NoResult]
        /\ shareables' = [shareables EXCEPT ![t] = Batch(t, known[t], ApiResult(r).data)]
        /\ stage' = [stage EXCEPT ![t] = AfterApi(Fetched(r))]
    /\ UNCHANGED <<store, active, pc, known, idx, res, outcome, pending, written>>
    /\ requests' = [requests EXCEPT ![t] = @ + 1]
    /\ UNCHANGED <<elapsed, conns, twin>>
    /\ UNCHANGED web

\* the request fails or its body does not decode
ApiErr(t) ==
    /\ t \in active
    /\ stage[t] = "api"
    /\ \E r \in Upstream(t) :
        /\ ~ApiResult(r).ok
        /\ result' = [result EXCEPT ![t] = Fetched(r)]
        /\ last' = [last EXCEPT ![t] = NoResult]
    /\ IF RetryFetch(requests[t] + 1)
       THEN UNCHANGED <<stage, known, res, outcome, conns>>
       ELSE Return(t, FetchFailureResult(t), "fetch_error")
    /\ UNCHANGED <<store, active, pc, shareables, idx, pending, written, repeat>>
    /\ requests' = [requests EXCEPT ![t] = @ + 1]
    /\ UNCHANGED <<elapsed, twin>>
    /\ UNCHANGED web

\* exec_batch prepares the statement; an empty batch is finished at once
Prepare(t) ==
    /\ t \in active
    /\ stage[t] = "prepare"
    /\ IF shareables[t] = <<>>
       THEN Return(t, EmptyBatch.res, EmptyBatch.outcome)
       ELSE /\ stage' = [stage EXCEPT ![t] = "exec"]
            /\ UNCHANGED <<known, res, outcome, conns>>
    /\ UNCHANGED <<store, active, pc, result, last, shareables, idx, pending, written, repeat>>
    /\ UNCHANGED <<requests, elapsed, twin>>
    /\ UNCHANGED web

\* the store rejects the statement (StoreError)
PrepareErr(t) ==
    /\ t \in active
    /\ stage[t] = "prepare"
    /\ Return(t, "Err", "store_error")
    /\ UNCHANGED <<store, active, pc, result, last, shareables, idx, pending, written, repeat>>
    /\ UNCHANGED <<requests, elapsed, twin>>
    /\ UNCHANGED web

\* exec_batch executes the statement for the next item of the batch
Exec(t) ==
    /\ t \in active
    /\ stage[t] = "exec"
    /\ LET r == ExecStatement(t, store, shareables[t][idx[t] + 1])
       IN  /\ store' = r.rows
           /\ written' = [written EXCEPT ![t] = @ + (Len(r.rows) - Len(store))]
           /\ IF ~r.ok
              THEN /\ Return(t, "Err", "duplicate_key")
                   /\ UNCHANGED idx
              ELSE /\ idx' = [idx EXCEPT ![t] = @ + 1]
                   /\ IF idx[t] + 1 = Len(shareables[t])
                      THEN Return(t, "Ok", "ok")
                      ELSE UNCHANGED <<stage, known, res, outcome, conns>>
    /\ UNCHANGED <<active, pc, result, last, shareables, pending, repeat>>
    /\ UNCHANGED <<requests, elapsed, twin>>
    /\ UNCHANGED web

\* the store rejects the write of the next item (StoreError): exec_batch stops
ExecErr(t) ==
    /\ t \in active
    /\ stage[t] = "exec"
    /\ Return(t, "Err", "store_error")
    /\ UNCHANGED <<store, active, pc, result, last, shareables, idx, pending, written, repeat>>
    /\ UNCHANGED <<requests, elapsed, twin>>
    /\ UNCHANGED web

Next ==
    \E t \in Tasks :
        \/ GetConn(t)
        \/ GetConnPanic(t)
        \/ Resume(t)
        \/ Tick(t)
        \/ Elapse(t)
        \/ Select(t)
        \/ SelectErr(t)
        \/ Api(t)
        \/ ApiErr(t)
        \/ Prepare(t)
        \/ PrepareErr(t)
        \/ Exec(t)
        \/ ExecErr(t)

Spec == Init /\ [][Next]_vars

(***************************************************************************)
(* Properties                                                              *)
(***************************************************************************)
NoDuplicateIds ==
    \A i, j \in 1..Len(store) : i # j => store[i].id # store[j].id

\* the cycle of task t has returned and the loop has not yet looked at the result
JustReturned(t) == pc[t] = "await" /\ stage[t] = "idle" /\ res[t] # "none"

\* C1: with the idempotent-write strategy (Fetcher::run, INSERT IGNORE keyed on
\* id) the store never holds two rows with the same id, however the cycles of
\* the tasks interleave.
C1_IdempotentWriteNoDuplicates ==
    active \subseteq IdempotentWriteTasks => NoDuplicateIds

\* two run tasks have submitted the same id with different titles; one row was
\* stored, the other submission was ignored
C1_Witness ==
    /\ active = IdempotentWriteTasks
    /\ \E a \in active, b \in active :
        /\ a # b
        /\ JustReturned(a) /\ JustReturned(b)
        /\ outcome[a] = "ok" /\ outcome[b] = "ok"
        /\ Len(shareables[a]) = 1 /\ Len(shareables[b]) = 1
        /\ shareables[a][1].id = shareables[b][1].id
        /\ shareables[a][1].title # shareables[b][1].title
        /\ written[a] = 1 /\ written[b] = 0
        /\ Len(store) = 1

\* C2: with the check-then-write strategy (snapshot of known ids, filter, plain
\* INSERT) no id appears more than once in the store, also when the cycles of
\* two tasks for the same source overlap between snapshot read and insert.
C2_CheckThenWriteNoDuplicates ==
    active \subseteq CheckThenWriteTasks => NoDuplicateIds

\* the standalone and the in-process twitter fetcher both read a snapshot
\* without the tweet, one stored it and the INSERT of the other was rejected
C2_Witness ==
    /\ active = {"fetcher-twitter", "twitter"}
    /\ \E a \in active, b \in active :
        /\ a # b
        /\ JustReturned(a) /\ JustReturned(b)
        /\ outcome[a] = "ok" /\ written[a] = 1
        /\ outcome[b] = "duplicate_key" /\ written[b] = 0
        /\ Len(shareables[b]) = 1
        /\ shareables[a][1].id = shareables[b][1].id
        /\ KeyExists(store, shareables[b][1].id)

\* C3: a cycle that gets the same response as the previous cycle of its task,
\* which completed successfully, adds no row to the store.
C3_IdempotentCycle ==
    \A t \in active : repeat[t] => written[t] = 0

\* a run task has submitted a non-empty response for the second time and every
\* item of it was executed
C3_Witness ==
    \E t \in active :
        /\ t \in IdempotentWriteTasks
        /\ repeat[t]
        /\ JustReturned(t) /\ outcome[t] = "ok"
        /\ Len(shareables[t]) >= 2
        /\ idx[t] = Len(shareables[t])

\* C4: a cycle whose request to the source failed (transport error or
\* undecodable response) never reaches the store write and inserts no row.
C4_NoWriteOnFetchFailure ==
    \A t \in active :
        result[t].status \in {"transport_error", "decode_error"} =>
            /\ written[t] = 0
            /\ stage[t] = "idle"
            /\ outcome[t] = "fetch_error"

\* a cycle has returned after an undecodable response while rows are stored
C4_Witness ==
    \E t \in active :
        /\ JustReturned(t)
        /\ result[t].status = "decode_error"
        /\ store # <<>>

\* C5: the result of a cycle whose fetch failed differs from the result of a
\* successful cycle with an empty batch, which is Ok.
C5_FetchFailureDistinct ==
    \A t \in active :
        (JustReturned(t) /\ outcome[t] = "fetch_error") => res[t] # "Ok"

\* C6: while the fetch of task a is in flight or has just failed, a has written
\* nothing in that cycle, and every other task b can take its next step: start a
\* cycle, read, write its items, resume and consume its tick.
C6_FailureIsolation ==
    \A a \in active, b \in active :
        (a # b /\ (stage[a] = "api" \/ outcome[a] = "fetch_error")) =>
            /\ written[a] = 0
            /\ pc[b] = "get_conn" => ENABLED GetConn(b)
            /\ stage[b] = "select" => ENABLED Select(b)
            /\ stage[b] = "api" => ENABLED Api(b)
            /\ stage[b] = "prepare" => ENABLED Prepare(b)
            /\ stage[b] = "exec" => ENABLED Exec(b)
            /\ (pc[b] = "await" /\ stage[b] = "idle") => ENABLED Resume(b)
            /\ (pc[b] = "tick" /\ pending[b] > 0) => ENABLED Tick(b)

\* the twitter fetch has failed and the Stack Overflow cycle that followed a
\* tick of its own interval has stored a question
C6_Witness ==
    /\ active = {"twitter", "stackoverflow"}
    /\ JustReturned("twitter") /\ outcome["twitter"] = "fetch_error"
    /\ JustReturned("stackoverflow") /\ outcome["stackoverflow"] = "ok"
    /\ written["stackoverflow"] = 1
    /\ pending["stackoverflow"] = 0
    /\ \A i \in 1..Len(store) : store[i].source = "stackoverflow"

\* C7: a task that has completed a cycle never terminates, whatever fails
\* inside the loop.
C7_NoTerminalState ==
    \A t \in active : ~(pc[t] = "panicked" /\ pending[t] = 0)

\* C8: when the loop leaves the await of a cycle it goes to the timer wait, and
\* the timer is the same as before, whatever the cycle returned.
C8_AlwaysBackToWaiting ==
    [][\A t \in active :
          (pc[t] = "await" /\ pc'[t] # "await") =>
              (pc'[t] = "tick" /\ pending'[t] = pending[t])]_vars

\* a task waits for its interval after a cycle that did not succeed
C8_Witness ==
    \E t \in active :
        /\ pc[t] = "tick"
        /\ pending[t] = 0
        /\ last[t] = NoResult
        /\ store = <<>>

\* C9: while the loop of a task is not awaiting a cycle (it waits for the tick
\* or is about to start the next cycle) no cycle of that task is in flight.
C9_CyclesNeverOverlap ==
    \A t \in active : pc[t] \in {"get_conn", "tick"} => stage[t] = "idle"

\* a task is about to start a cycle after its previous cycle stored rows
C9_Witness ==
    \E t \in active :
        /\ pc[t] = "get_conn"
        /\ pending[t] = 0
        /\ last[t].status = "ok"
        /\ Len(store) >= 2
        /\ active = {t}

\* C10: when the store rejects a write of a batch, the cycle leaves no partial
\* batch: none of the batch was persisted by the cycle, or every item of the
\* batch was attempted, or every item of the batch is in the store.
C10_NoPartialBatch ==
    \A t \in active :
        (JustReturned(t) /\ outcome[t] = "store_error") =>
            \/ written[t] = 0
            \/ idx[t] + 1 >= Len(shareables[t])
            \/ \A i \in 1..Len(shareables[t]) : KeyExists(store, shareables[t][i].id)

\* C11: no stored twitter row has a title that contains the retweet marker,
\* whichever twitter fetcher stored it.
C11_NoRetweetStored ==
    \A i \in 1..Len(store) :
        store[i].source = "twitter" => ~Contains(store[i].title, RetweetMarker)

\* C12: a cycle follows the continuation tokens: it ends as a success only
\* after a response that carries no token, having sent one request for each
\* page of the chain.
C12_FollowsContinuationTokens ==
    \A t \in active :
        (JustReturned(t) /\ outcome[t] = "ok") => result[t].next_token = "none"

\* C13: a cycle sends at most PageCeiling requests to its source, also when
\* every response carries a continuation token; the response that reaches the
\* ceiling is not a fetch failure: the cycle goes on to the write with the
\* items it has.
C13_PageRequestsBounded ==
    \A t \in active :
        /\ requests[t] <= PageCeiling
        /\ result[t].next_token # "none" =>
              /\ result[t].status = "ok"
              /\ stage[t] # "api"
              /\ outcome[t] # "fetch_error"
              /\ stage[t] \in {"prepare", "exec"} =>
                    shareables[t] = Batch(t, known[t], result[t].data)

\* a response with a token reached the ceiling; its item was written and the
\* cycle returned Ok
C13_Witness ==
    \E t \in active :
        /\ JustReturned(t)
        /\ result[t].next_token # "none"
        /\ requests[t] = PageCeiling
        /\ res[t] = "Ok" /\ outcome[t] = "ok"
        /\ written[t] = 1

\* the cycle of task t has returned after a decoded response that left nothing
\* to write
EmptyBatchCycle(t) ==
    JustReturned(t) /\ result[t].status = "ok" /\ shareables[t] = <<>>

\* C14 as stated: a cycle whose candidate batch is empty ends as success and
\* writes zero rows, under both strategies.
C14_EmptyBatchSucceeds ==
    \A t \in active : EmptyBatchCycle(t) => (res[t] = "Ok" /\ written[t] = 0)

\* C14 amended: a cycle whose candidate batch is empty writes zero rows and
\* ends as success, unless the store rejects the statement itself (StoreError),
\* which ends the cycle as a failure.
C14_EmptyBatchNoError ==
    \A t \in active :
        EmptyBatchCycle(t) =>
            /\ written[t] = 0
            /\ \/ res[t] = "Ok" /\ outcome[t] = "ok"
               \/ res[t] = "Err" /\ outcome[t] = "store_error"

\* a check-then-write cycle got two items, both already stored, and returned Ok
\* without writing
C14_Witness ==
    \E t \in active :
        /\ t \in CheckThenWriteTasks
        /\ EmptyBatchCycle(t)
        /\ Len(result[t].data) = 2
        /\ \A i \in 1..2 : KeyExists(store, Batch(t, <<>>, result[t].data)[i].id)
        /\ res[t] = "Ok" /\ written[t] = 0

\* C15: with INSERT IGNORE every stored row keeps its field values whatever a
\* cycle submits under its id, the submission is not an error, and a row is
\* added only for an id that was not stored.
C15_UpsertIgnoreKeepsRows ==
    [][active \subseteq IdempotentWriteTasks =>
          /\ Len(store') >= Len(store)
          /\ \A i \in 1..Len(store) : store'[i] = store[i]
          /\ \A i \in (Len(store) + 1)..Len(store') : ~KeyExists(store, store'[i].id)
          /\ \A t \in active : outcome'[t] # "duplicate_key"]_vars

\* a run cycle has submitted a stored id with another title together with a
\* new id: the call returned Ok, one row was added, the stored title is the old one
C15_Witness ==
    \E t \in active :
        /\ t \in IdempotentWriteTasks
        /\ JustReturned(t) /\ res[t] = "Ok"
        /\ written[t] = 1
        /\ \E i \in 1..Len(shareables[t]), j \in 1..Len(store) :
              /\ store[j].id = shareables[t][i].id
              /\ store[j].title # shareables[t][i].title
              /\ store[j].date # shareables[t][i].date

\* C16: two cycles of a task are separated by an interval wait: a cycle that
\* runs while no period of the task's interval has passed since startup is the
\* first one, the tick the interval delivers at once is not consumed yet.
C16_CycleAfterIntervalWait ==
    \A t \in active : (pc[t] = "await" /\ ~elapsed[t]) => pending[t] >= 1

\* the shareable a task makes of one item of a response
Normalized(t, item) ==
    CASE t \in {"fetcher-twitter", "twitter"} -> TwitterShareable(item)
      [] t = "stackoverflow"                  -> StackOverflowShareable(item)
      [] OTHER                                -> item

\* the exclusion rule of a task's source: retweets are never shared
Excluded(t, item) ==
    t \in {"fetcher-twitter", "twitter"} /\ Contains(item.text, RetweetMarker)

\* the ids of the rows
IdSet(rows) == { rows[i].id : i \in 1..Len(rows) }

\* C17: after a successful cycle of a task that runs alone, the stored ids are
\* the ids stored before the cycle together with the ids of the non-excluded
\* items of the response.
C17_StoredIdsAfterCycle ==
    \A t \in active :
        (active = {t} /\ JustReturned(t) /\ outcome[t] = "ok") =>
            LET before == SubSeq(store, 1, Len(store) - written[t])
                data == result[t].data
            IN  IdSet(store) =
                    IdSet(before) \cup
                    { Normalized(t, data[i]).id :
                          i \in { k \in 1..Len(data) : ~Excluded(t, data[k]) } }

(***************************************************************************)
(* The two strategies side by side: each has its own store, both get the   *)
(* same responses, the cycles do not overlap and the store does not fail   *)
(***************************************************************************)
RECURSIVE ExecBatch(_, _, _)
\* exec_batch of task t: the statement is executed for each item in turn and
\* the first error ends the call
ExecBatch(t, rows, batch) ==
    IF batch = <<>> THEN [ok |-> TRUE, rows |-> rows]
    ELSE LET r == ExecStatement(t, rows, Head(batch))
         IN  IF ~r.ok THEN r ELSE ExecBatch(t, r.rows, Tail(batch))

\* one whole cycle of fetcher-twitter on rows: snapshot, filter, plain INSERT
CheckThenWriteCycle(rows, data) ==
    ExecBatch("fetcher-twitter", rows, Batch("fetcher-twitter", SelectIds(rows), data))

\* one whole cycle of Fetcher::run on rows, fetch() handing over every item of
\* the response: INSERT IGNORE of each
IdempotentWriteCycle(rows, data) ==
    ExecBatch("fetcher-a", rows, [i \in 1..Len(data) |-> Normalized("fetcher-twitter", data[i])])

ResultOf(r) == IF r.ok THEN "Ok" ELSE "Err"

TwinInit ==
    /\ store = <<>>
    /\ active = {}
    /\ pc = [t \in Tasks |-> "get_conn"]
    /\ stage = [t \in Tasks |-> "idle"]
    /\ known = [t \in Tasks |-> <<>>]
    /\ result = [t \in Tasks |-> NoResult]
    /\ last = [t \in Tasks |-> NoResult]
    /\ shareables = [t \in Tasks |-> <<>>]
    /\ idx = [t \in Tasks |-> 0]
    /\ res = [t \in Tasks |-> "none"]
    /\ outcome = [t \in Tasks |-> "none"]
    /\ pending = [t \in Tasks |-> 1]
    /\ written = [t \in Tasks |-> 0]
    /\ repeat = [t \in Tasks |-> FALSE]
    /\ requests = [t \in Tasks |-> 0]
    /\ elapsed = [t \in Tasks |-> FALSE]
    /\ conns = [t \in Tasks |-> 0]
    /\ twin = NoTwin
    /\ WebInit

\* both runs get the same response and complete their cycle
TwinCycle ==
    /\ twin.cycles < MaxCycles
    /\ \E data \in SeqsUpTo(Tweets, MaxItems) :
          LET c == CheckThenWriteCycle(twin.ctw, data)
              i == IdempotentWriteCycle(twin.iw, data)
          IN  twin' = [ctw |-> c.rows, iw |-> i.rows,
                       ctw_res |-> ResultOf(c), iw_res |-> ResultOf(i),
                       data |-> data, cycles |-> twin.cycles + 1]
    /\ UNCHANGED <<store, active, pc, stage, known, result, last, shareables, idx, res,
                   outcome, pending, written, repeat, requests, elapsed, conns>>
    /\ UNCHANGED web

TwinNext == TwinCycle

TwinSpec == TwinInit /\ [][TwinNext]_vars

\* C18: fed the same responses from the same store, the check-then-write run
\* and the idempotent-write run have the same stored ids and the same result
\* after every cycle.
C18_StrategiesEquivalent ==
    /\ IdSet(twin.ctw) = IdSet(twin.iw)
    /\ twin.ctw_res = twin.iw_res

\* C19: in a check-then-write cycle the known ids are read once, first thing
\* in the cycle and before the request to the source; they change at no other
\* step, are gone when the cycle returns, and the batch holds exactly the items
\* of the response that the fetcher does not exclude and whose id is not among
\* the ids read in this cycle.
C19_SnapshotPerCycle ==
    [][\A t \in active \cap CheckThenWriteTasks :
          /\ known'[t] # known[t] =>
                \/ /\ stage[t] = "select" /\ stage'[t] = "api"
                   /\ known'[t] = [i \in 1..Len(store) |-> store[i].id]
                \/ stage'[t] = "idle" /\ known'[t] = <<>>
          /\ (stage[t] = "idle" /\ stage'[t] # "idle") =>
                (known[t] = <<>> /\ stage'[t] = "select")
          /\ (stage'[t] = "api" /\ stage[t] # "api") => stage[t] = "select"
          /\ requests'[t] > requests[t] => stage[t] = "api"
          /\ (stage[t] = "api" /\ stage'[t] = "prepare") =>
                LET data == result'[t].data
                    Keep(item) ==
                        /\ ~(t = "twitter" /\ Contains(item.text, RetweetMarker))
                        /\ \A i \in 1..Len(known[t]) : known[t][i] # Normalized(t, item).id
                    kept == SelectSeq(data, Keep)
                IN  /\ known'[t] = known[t]
                    /\ shareables'[t] = [i \in 1..Len(kept) |-> Normalized(t, kept[i])]]_vars

\* the stackoverflow fetcher has read one stored id and got two questions: the
\* stored one was skipped, the other is in the batch
C19_Witness ==
    /\ stage["stackoverflow"] = "prepare"
    /\ Len(known["stackoverflow"]) = 1
    /\ Len(result["stackoverflow"].data) = 2
    /\ Len(shareables["stackoverflow"]) = 1
    /\ \E i \in 1..2 :
          StackOverflowItemId(result["stackoverflow"].data[i]) = known["stackoverflow"][1]

\* C20: a task holds one pooled connection exactly while its cycle runs: it is
\* obtained when the cycle starts and released when the cycle returns, on
\* every exit path, before the task waits for the next tick; a task never
\* holds more than one.
C20_OneConnectionPerCycle ==
    \A t \in active :
        /\ conns[t] <= 1
        /\ stage[t] # "idle" => conns[t] = 1
        /\ (stage[t] = "idle" \/ pc[t] # "await") => conns[t] = 0

\* two tasks have left their cycles through different failures, one at the
\* snapshot read and one at the store write of its batch; neither holds a
\* connection
C20_Witness ==
    \E a \in active, b \in active :
        /\ JustReturned(a) /\ outcome[a] = "snapshot_error"
        /\ JustReturned(b) /\ outcome[b] = "store_error" /\ shareables[b] # <<>>
        /\ conns[a] = 0 /\ conns[b] = 0

\* C21 as stated: every cycle sends exactly one request to its source.
C21_OneRequestPerCycle ==
    \A t \in active : JustReturned(t) => requests[t] = 1

\* C21 amended: a cycle sends at most one request to its source, exactly one
\* unless it ended at the snapshot read; after a transport or decode failure
\* the cycle has returned, so the next request is the next cycle's.
C21_NoRetryInCycle ==
    \A t \in active :
        /\ requests[t] <= 1
        /\ JustReturned(t) => (requests[t] = 0 <=> outcome[t] = "snapshot_error")
        /\ result[t].status \in {"transport_error", "decode_error"} =>
              (requests[t] = 1 /\ stage[t] = "idle")

\* a cycle has returned after a transport error, with its one request sent
C21_Witness ==
    \E t \in active :
        /\ JustReturned(t)
        /\ result[t].status = "transport_error"
        /\ requests[t] = 1

\* what the caller finds inside the Ok a cycle returns: fetch and run return
\* Result<(), ...>, the unit value
OkValue == <<>>

\* C23: a successful cycle returns to its caller the number of rows it has
\* inserted.
C23_ReturnsCount ==
    \A t \in active :
        (JustReturned(t) /\ res[t] = "Ok" /\ outcome[t] = "ok") => OkValue = <<written[t]>>

\* the identifier an item has at its source: tweet id, question link
NativeId(t, item) == IF t = "stackoverflow" THEN item.link ELSE item.id

\* C24: the id of every item in a batch and of every stored row is its source
\* field, "-", and the native identifier of the item (tweet id, question
\* link), so the same item gets the same id in every cycle.
C24_SourceScopedIds ==
    \A t \in active \cap CheckThenWriteTasks :
        /\ Len(shareables[t]) <= Len(result[t].data)
        /\ \A i \in 1..Len(shareables[t]) :
              \E k \in 1..Len(result[t].data) :
                  shareables[t][i].id =
                      shareables[t][i].source \o "-" \o NativeId(t, result[t].data[k])
        /\ \A i \in 1..Len(store) :
              \E u \in active : \E x \in Items(u) :
                  store[i].id = store[i].source \o "-" \o NativeId(u, x)

\* a tweet and a question are stored, and the twitter fetcher has got the
\* stored tweet again and skipped it
C24_Witness ==
    /\ active = {"twitter", "stackoverflow"}
    /\ Len(store) = 2
    /\ stage["twitter"] = "prepare"
    /\ shareables["twitter"] = <<>>
    /\ \E k \in 1..Len(result["twitter"].data) :
          KeyExists(store, "twitter-" \o result["twitter"].data[k].id)

(***************************************************************************)
(* The normalisation of questions alone: the stackoverflow fetcher builds  *)
(* its batch for any response, nothing being known                         *)
(***************************************************************************)
\* every question a response can hold
AnyQuestion ==
    [is_answered : BOOLEAN,
     link : {"https://stackoverflow.com/q/1", "https://stackoverflow.com/q/2"},
     title : {"How", "Why"},
     answer_count : 0..MaxAnswers,
     creation_date : {86399}]

NormInit == TwinInit

\* the item loop of fetch in stackoverflow.rs over a decoded response
NormalizeQuestions ==
    /\ result["stackoverflow"].status = "none"
    /\ \E data \in SeqsUpTo(AnyQuestion, MaxQuestions) :
          /\ result' = [result EXCEPT !["stackoverflow"] =
                           [status |-> "ok", data |-> data, next_token |-> "none"]]
          /\ shareables' = [shareables EXCEPT !["stackoverflow"] =
                               Batch("stackoverflow", <<>>, data)]
    /\ UNCHANGED <<store, active, pc, stage, known, last, idx, res, outcome, pending,
                   written, repeat, requests, elapsed, conns, twin>>
    /\ UNCHANGED web

NormNext == NormalizeQuestions

NormSpec == NormInit /\ [][NormNext]_vars

\* the markers a question title can carry
Markers == {":white_check_mark:", ":waiting-spin:", ":question:"}

\* the title a question is to get: one marker, " - ", the question's title
MarkedTitle(item) ==
    << IF item.is_answered = TRUE THEN ":white_check_mark:"
       ELSE IF item.is_answered = FALSE /\ item.answer_count > 0 THEN ":waiting-spin:"
       ELSE ":question:",
       " - ", item.title >>

\* C25: the title of every normalized question carries exactly one marker:
\* ":white_check_mark:" when is_answered, whatever answer_count is,
\* ":waiting-spin:" when not answered and answer_count > 0, ":question:"
\* otherwise.
C25_StatusMarker ==
    LET batch == shareables["stackoverflow"]
        data == result["stackoverflow"].data
    IN  /\ Len(batch) = Len(data)
        /\ \A i \in 1..Len(batch) :
              /\ Cardinality({ j \in 1..Len(batch[i].title) :
                                   batch[i].title[j] \in Markers }) = 1
              /\ batch[i].title = MarkedTitle(data[i])

\* a response with an answered question that counts no answer and an
\* unanswered one that counts two was normalized
C25_Witness ==
    LET batch == shareables["stackoverflow"]
        data == result["stackoverflow"].data
    IN  /\ Len(data) = 2
        /\ data[1].is_answered /\ data[1].answer_count = 0
        /\ ~data[2].is_answered /\ data[2].answer_count = 2
        /\ batch[1].title[1] = ":white_check_mark:"
        /\ batch[2].title[1] = ":waiting-spin:"

\* C26: the write batch of a check-then-write cycle holds no id twice.
C26_BatchIdsDistinct ==
    \A t \in active \cap CheckThenWriteTasks :
        \A i, j \in 1..Len(shareables[t]) :
            i # j => shareables[t][i].id # shareables[t][j].id

(***************************************************************************)
(* The in-memory variant: calls of the root handler sharing the cache      *)
(***************************************************************************)
\* the state of the persisting fetchers and of the strategy comparison
core == <<store, active, pc, stage, known, result, last, shareables, idx, res, outcome,
          pending, written, repeat, requests, elapsed, conns, twin>>

\* variant: taking the lock does not wait for its holder
NotExclusive(h) == TRUE

\* cache.write() returns once no other call holds the lock
WriteLockFree(h) == lock = "none"

\* variant: the first failed fetch ends the handling of the responses
AbortOnError(n) == 3

\* the Err arm of a response only warns: the next response is looked at
AfterFetchError(n) == n + 1

\* the three responses: two twitter queries, then stackoverflow
Fetches == 3

\* where root goes after the response n - 1 has been handled
AfterResponse(n) == IF n >= Fetches THEN "post" ELSE "filter"

\* no scheduler task, empty stores, empty cache, no call in flight
RootInit == TwinInit

\* a request for "/" arrives: root starts its three fetches
Start(h) ==
    /\ calls[h].pc \in {"idle", "done"}
    /\ calls' = [calls EXCEPT ![h] = [NoCall EXCEPT !.pc = "join"]]
    /\ UNCHANGED <<cache, lock, selected>>
    /\ UNCHANGED core

\* tokio::join! returns: the three fetches have completed
Join(h) ==
    /\ calls[h].pc = "join"
    /\ calls' = [calls EXCEPT ![h].pc = "filter"]
    /\ UNCHANGED <<cache, lock, selected>>
    /\ UNCHANGED core

\* the next response is Ok: filter_duplicate_*_items is called and takes the
\* write lock of the cache
FilterBegin(h) ==
    /\ calls[h].pc = "filter"
    /\ WriteLockFree(h)
    /\ \E r \in WebUpstream(calls[h].next) :
          /\ r.ok
          /\ calls' = [calls EXCEPT ![h].pc = "locked",
                                    ![h].seen = Append(@, "ok"),
                                    ![h].data = r.data,
                                    ![h].at = 0]
    /\ lock' = h
    /\ UNCHANGED <<cache, selected>>
    /\ UNCHANGED core

\* the next response is Err: warn!
FetchErr(h) ==
    /\ calls[h].pc = "filter"
    /\ \E r \in WebUpstream(calls[h].next) : ~r.ok
    /\ calls' = [calls EXCEPT ![h].seen = Append(@, "err"),
                              ![h].next = AfterFetchError(@),
                              ![h].pc = AfterResponse(AfterFetchError(calls[h].next))]
    /\ UNCHANGED <<cache, lock, selected>>
    /\ UNCHANGED core

\* the loop of the filter looks at the next item: known or never to be shared
\* items are logged and passed over
Check(h) ==
    /\ calls[h].pc = "locked"
    /\ calls[h].at < Len(calls[h].data)
    /\ LET item == calls[h].data[calls[h].at + 1]
       IN  IF CacheContains(cache, CacheKey(item)) \/ NeverShare(item)
           THEN calls' = [calls EXCEPT ![h].at = @ + 1]
           ELSE calls' = [calls EXCEPT ![h].pc = "push"]
    /\ UNCHANGED <<cache, lock, selected>>
    /\ UNCHANGED core

\* items_to_post.push(item); c.add(item.cache_key())
Push(h) ==
    /\ calls[h].pc = "push"
    /\ LET item == calls[h].data[calls[h].at + 1]
       IN  /\ calls' = [calls EXCEPT ![h].items_to_post = Append(@, item),
                                     ![h].at = @ + 1,
                                     ![h].pc = "locked"]
           /\ cache' = CacheAdd(cache, CacheKey(item))
           /\ selected' = [selected EXCEPT ![CacheKey(item)] = @ + 1]
    /\ UNCHANGED lock
    /\ UNCHANGED core

\* the loop is over: the filter returns and its lock guard is dropped
FilterEnd(h) ==
    /\ calls[h].pc = "locked"
    /\ calls[h].at = Len(calls[h].data)
    /\ calls' = [calls EXCEPT ![h].next = @ + 1,
                              ![h].pc = AfterResponse(calls[h].next + 1),
                              ![h].data = <<>>,
                              ![h].at = 0]
    /\ lock' = "none"
    /\ UNCHANGED <<cache, selected>>
    /\ UNCHANGED core

\* the message is built and the post to the Slack webhook succeeds
PostOk(h) ==
    /\ calls[h].pc = "post"
    /\ calls' = [calls EXCEPT ![h].pc = "respond",
                              ![h].res = "Ok",
                              ![h].text = Content(calls[h].items_to_post)]
    /\ UNCHANGED <<cache, lock, selected>>
    /\ UNCHANGED core

\* the post to the Slack webhook fails: warn!
PostErr(h) ==
    /\ calls[h].pc = "post"
    /\ calls' = [calls EXCEPT ![h].pc = "respond",
                              ![h].res = "Err",
                              ![h].text = Content(calls[h].items_to_post)]
    /\ UNCHANGED <<cache, lock, selected>>
    /\ UNCHANGED core

\* Json(Reponse { status: "ok", posted_items: Some(items_to_post.len()) })
Respond(h) ==
    /\ calls[h].pc = "respond"
    /\ calls' = [calls EXCEPT ![h] =
                    [NoCall EXCEPT !.pc = "done",
                                   !.response = [status |-> "ok",
                                                 posted_items |->
                                                     Len(calls[h].items_to_post)]]]
    /\ UNCHANGED <<cache, lock, selected>>
    /\ UNCHANGED core

\* the timeout layer drops the call while it awaits the fetches or the post
\* and answers REQUEST_TIMEOUT
Timeout(h) ==
    /\ calls[h].pc \in {"join", "post"}
    /\ calls' = [calls EXCEPT ![h] =
                    [NoCall EXCEPT !.pc = "done",
                                   !.response = [status |-> "timeout", posted_items |-> 0]]]
    /\ UNCHANGED <<cache, lock, selected>>
    /\ UNCHANGED core

RootNext ==
    \E h \in Handlers :
        \/ Start(h)
        \/ Join(h)
        \/ FilterBegin(h)
        \/ FetchErr(h)
        \/ Check(h)
        \/ Push(h)
        \/ FilterEnd(h)
        \/ PostOk(h)
        \/ PostErr(h)
        \/ Respond(h)
        \/ Timeout(h)

RootSpec == RootInit /\ [][RootNext]_vars

\* C22: whatever the interleaving of the calls, and across the two twitter
\* queries of one call, an item of a cache key is pushed for posting at most
\* once: the look-up of the key and its insertion are under one hold of the
\* write lock.
C22_KeySelectedOnce ==
    \A k \in Keys : selected[k] <= 1

\* two calls are in flight; one has pushed tweet 1, the other holds the lock,
\* has found the same tweet in its response and has passed it over
C22_Witness ==
    \E a \in Handlers, b \in Handlers :
        /\ a # b
        /\ calls[a].items_to_post # <<>>
        /\ CacheKey(calls[a].items_to_post[1]) = "twitter-1"
        /\ calls[a].pc \in {"filter", "post"}
        /\ lock = b
        /\ calls[b].pc = "locked"
        /\ calls[b].at = 1
        /\ CacheKey(calls[b].data[1]) = "twitter-1"
        /\ calls[b].items_to_post = <<>>

\* C27: the cache holds exactly the keys of the items that were pushed for
\* posting; no key is ever removed, and the key of a tweet that holds the
\* retweet marker or starts with "@" is never in the cache.
C27_CacheIsSelectedKeys ==
    [][/\ cache \subseteq cache'
       /\ cache' = { k \in Keys : selected'[k] > 0 }
       /\ \A x \in WebTweets :
             (Contains(x.text, RetweetMarker) \/ x.text[1] = "@") =>
                 ("twitter-" \o x.id) \notin cache']_vars

\* a filter has gone through a retweet and a mention while the cache holds
\* the keys of a tweet and of a question
C27_Witness ==
    \E h \in Handlers :
        /\ calls[h].pc = "locked"
        /\ calls[h].at = 2
        /\ { CacheKey(calls[h].data[1]), CacheKey(calls[h].data[2]) } =
               {"twitter-2", "twitter-3"}
        /\ Cardinality(cache) = 2

\* C28: when the post to the Slack webhook has failed, the keys of the items
\* selected by that call are not in the cache, so that a later call selects
\* them again.
C28_KnownOnlyIfDelivered ==
    \A h \in Handlers :
        (calls[h].pc = "respond" /\ calls[h].res = "Err") =>
            \A i \in 1..Len(calls[h].items_to_post) :
                CacheKey(calls[h].items_to_post[i]) \notin cache

\* C29: a failed fetch does not keep the other responses from being handled:
\* a call gets to the post only after all three responses were looked at;
\* when a filter has gone through a response every item of it is in the
\* cache or never shared; what a call has pushed is in the cache and makes up
\* the message it posts; and the call can respond.
C29_FetchFailureDoesNotSuppress ==
    \A h \in Handlers :
        /\ calls[h].pc \in {"post", "respond"} =>
              (Len(calls[h].seen) = Fetches /\ calls[h].next = Fetches)
        /\ Len(calls[h].seen) <= Fetches
        /\ (calls[h].pc = "locked" /\ calls[h].at = Len(calls[h].data)) =>
              \A k \in 1..Len(calls[h].data) :
                  \/ CacheKey(calls[h].data[k]) \in cache
                  \/ NeverShare(calls[h].data[k])
        /\ \A i \in 1..Len(calls[h].items_to_post) :
              CacheKey(calls[h].items_to_post[i]) \in cache
        /\ calls[h].pc = "respond" =>
              /\ Len(calls[h].text) = Len(calls[h].items_to_post)
              /\ \A i \in 1..Len(calls[h].text) :
                    calls[h].text[i] = <<"* ">> \o Message(calls[h].items_to_post[i])
              /\ ENABLED Respond(h)

\* the first twitter query of a call failed; the tweet of the second and the
\* question were pushed and posted
C29_Witness ==
    \E h \in Handlers :
        /\ calls[h].pc = "respond"
        /\ calls[h].seen = <<"err", "ok", "ok">>
        /\ calls[h].res = "Ok"
        /\ Len(calls[h].items_to_post) = 2
        /\ IsTweet(calls[h].items_to_post[1])
        /\ ~IsTweet(calls[h].items_to_post[2])

====
